---- MODULE Spec2Model ----
(***************************************************************************)
(* Model of canvas-alert-bot (src/bot.py): a Discord bot that polls Canvas *)
(* for upcoming assignments, posts a morning and a midday digest, and      *)
(* registers a one-shot "due in 2 hours" warning per fetched assignment.   *)
(*                                                                         *)
(* Time is counted in ticks of 30 minutes.  `clock' is the current instant *)
(* (UTC ticks).  A timezone-aware datetime is a record [wall, off]: the    *)
(* wall-clock reading and the UTC offset it was taken with; its instant is *)
(* wall - off, and aware datetimes compare by instant, as in Python.       *)
(***************************************************************************)
EXTENDS Integers, Sequences, FiniteSets, Bags, TLC

(* ---------------------------- program constants ------------------------ *)
TicksPerDay == 48
TzOffset == 0 - 10
DaysAheadDefault == 7
TwoHours == 4
MorningTick == 16
MiddayTick == 26
RescanCadence == 1
NextLimit == 5

(* ------------------------------- bounds -------------------------------- *)
StartClock == 25
MaxTicks == 5
MaxReady == 2
MaxRestarts == 1
MaxFaults == 1
MaxDays == 2
MaxCourses == 3

NoDue == 0 - 1
NoFail == 0 - 1
NoTime == 0 - 1

(* ------------------------------ datetimes ------------------------------ *)
Instant(d) == d.wall - d.off

\* datetime.now(tz) when the current instant is t
NowTz(t) == [wall |-> t + TzOffset, off |-> TzOffset]

\* datetime.fromisoformat(s.replace("Z", "+00:00")): the upstream string is a
\* UTC reading, so the parsed value has offset 0
FromIsoFormat(s) == [wall |-> s, off |-> 0]

\* d.astimezone(tz): same instant, read on the wall clock of tz
AsTimezone(d) == [wall |-> Instant(d) + TzOffset, off |-> TzOffset]

\* d + timedelta(ticks): moves the wall reading, keeps the offset
PlusDelta(d, n) == [wall |-> d.wall + n, off |-> d.off]

\* a <= b on aware datetimes
DtLeq(a, b) == Instant(a) <= Instant(b)

\* a > b on aware datetimes
DtGt(a, b) == Instant(a) > Instant(b)

(* ------------------------- the upstream data source -------------------- *)
\* An upstream assignment is [name, due_at, html_url]; due_at is NoDue or a
\* UTC tick.  A course is [name, assignments].
Asg(n, d) == [name |-> n, due_at |-> d, html_url |-> n]

Course(n, as) == [name |-> n, assignments |-> as]

\* The upstream sets the scheduling model runs against, for a process that
\* starts at instant t: warnings that come due while it runs, one whose
\* warning time has passed already, one assignment without a due date.
MainUpstreams(t) ==
    { << Course("c1", << Asg("hw", t + 7) >>),
         Course("c2", << Asg("quiz", t + 6), Asg("essay", NoDue) >>) >>,
      << Course("c1", << Asg("lab", t + 6), Asg("hw", t + 3) >>) >>,
      << >> }

\* The instants the process may start at: half an hour before the morning
\* digest and half an hour before the midday digest.
StartClocks == {StartClock, StartClock + (MiddayTick - MorningTick)}

\* The upstream sets the fetch function is checked against: up to two
\* courses of up to two assignments, any order of due dates.
FetchDues ==
    {NoDue, StartClock, StartClock + 1, StartClock + 2,
     StartClock + 1 + TicksPerDay, StartClock + 2 + TicksPerDay}

FetchCourseItems ==
    { << >> } \cup { << Asg("a", d) >> : d \in FetchDues }
        \cup { << Asg("a", d), Asg("b", e) >> : d \in FetchDues, e \in {NoDue, StartClock, StartClock + 1} }

FetchUpstreams ==
    { << Course("c1", x) >> : x \in FetchCourseItems }
        \cup { << Course("c1", x), Course("c2", y) >> :
                 x \in FetchCourseItems, y \in { << >>, << Asg("q", StartClock + 1) >>, << Asg("q", StartClock + 3) >> } }

\* The upstream sets the `next' command is checked against: up to MaxCourses
\* courses of two assignments each, listed in an order that is not the order
\* of the due dates, some without a due date, some beyond the horizon.
CourseNames == << "c1", "c2", "c3", "c4", "c5" >>

CommandCourseItems ==
    { << Asg("a", StartClock + 3), Asg("b", StartClock + 2) >>,
      << Asg("a", NoDue), Asg("b", StartClock + (DaysAheadDefault + 1) * TicksPerDay) >> }

CommandUpstreams ==
    { [i \in 1 .. n |-> Course(CourseNames[i], x[i])] :
        <<n, x>> \in { y \in (0 .. MaxCourses) \X [1 .. MaxCourses -> CommandCourseItems] :
                         \A i \in (y[1] + 1) .. MaxCourses :
                             y[2][i] = << Asg("a", StartClock + 3), Asg("b", StartClock + 2) >> } }

(* --------------------------- get_upcoming_assignments ------------------ *)
\* One fetched assignment, the tuple (course.name, a.name, due, a.html_url).
Tuple(c, a, due) == [course |-> c.name, name |-> a.name, due |-> due, url |-> a.html_url]

\* Qualifies with the horizon bound made strict: now <= due < horizon.
QualifiesStrict(a, now, horizon) ==
    /\ a.due_at # NoDue
    /\ DtLeq(now, AsTimezone(FromIsoFormat(a.due_at)))
    /\ DtGt(horizon, AsTimezone(FromIsoFormat(a.due_at)))

\* The test of the inner loop body for one assignment: it has a due date and
\* now <= due <= horizon.
Qualifies(a, now, horizon) ==
    /\ a.due_at # NoDue
    /\ DtLeq(now, AsTimezone(FromIsoFormat(a.due_at)))
    /\ DtLeq(AsTimezone(FromIsoFormat(a.due_at)), horizon)

\* How many items course.get_assignments() yields before it raises: all of
\* them when failAt = NoFail, else the first failAt.
Yielded(c, failAt) ==
    IF failAt = NoFail THEN Len(c.assignments) ELSE failAt

\* The loops: for course in get_courses(): try: for a in get_assignments():
\* ... append ... except Exception: continue.  The positions <<course,
\* assignment>> whose tuple gets appended: the yielded qualifying ones.  What
\* a course appended before its enumeration raised stays in the list.
Appended(courses, fails, now, horizon) ==
    { p \in (DOMAIN courses) \X (1 .. 2) :
        /\ p[2] <= Yielded(courses[p[1]], fails[p[1]])
        /\ Qualifies(courses[p[1]].assignments[p[2]], now, horizon) }

\* due = datetime.fromisoformat(a.due_at.replace("Z", "+00:00")).astimezone(tz)
\* for the assignment at position p.
DueOf(courses, p) == AsTimezone(FromIsoFormat(courses[p[1]].assignments[p[2]].due_at))

\* The tuple appended for position p.
TupleAt(courses, p) ==
    Tuple(courses[p[1]], courses[p[1]].assignments[p[2]], DueOf(courses, p))

\* p is appended before q: courses in order, assignments in order.
AppendedBefore(p, q) == p[1] < q[1] \/ (p[1] = q[1] /\ p[2] < q[2])

\* SortsBefore for a list that is returned as appended, without the sort.
SortsBeforeUnsorted(courses, p, q) == AppendedBefore(p, q)

\* sorted(assignments, key=lambda x: x[2]) puts p before q: the earlier due
\* first, and equal dues in the order of the list (the sort is stable).
SortsBefore(courses, p, q) ==
    \/ DtGt(DueOf(courses, q), DueOf(courses, p))
    \/ /\ ~DtGt(DueOf(courses, p), DueOf(courses, q))
       /\ AppendedBefore(p, q)

\* The sorted list of the tuples at the positions P.
SortedByDue(courses, P) ==
    [n \in 1 .. Cardinality(P) |->
        TupleAt(courses,
                CHOOSE p \in P : Cardinality({q \in P : SortsBefore(courses, q, p)}) = n - 1)]

\* get_upcoming_assignments(days_ahead) called at instant t.  topFail: the
\* enumeration of canvas.get_courses() raises; it is outside every try, so the
\* exception leaves the function.  fails[i]: where the enumeration of course
\* i raises (NoFail: nowhere).  The outcome is [raised, result].
GetUpcomingAssignments(t, days, courses, topFail, fails) ==
    IF topFail THEN [raised |-> TRUE, result |-> << >>]
    ELSE CHOOSE out \in
            { [raised |-> FALSE, result |-> SortedByDue(courses, P)] :
                P \in { Appended(courses, fails, NowTz(t),
                                  PlusDelta(NowTz(t), days * TicksPerDay)) } } : TRUE

\* The places where the enumeration of a course can raise.
FailPoints(c) == {NoFail} \cup (0 .. Len(c.assignments) - 1)

\* One choice of failure place per course.
FailChoices(courses) ==
    { f \in [1 .. Len(courses) -> {NoFail} \cup (0 .. 1)] :
        \A i \in 1 .. Len(courses) : f[i] \in FailPoints(courses[i]) }

\* No course fails.
NoFails(courses) == [i \in 1 .. Len(courses) |-> NoFail]

\* What the data source can do in one fetch: fail in the enumeration of the
\* courses (no course is enumerated then), or fail in the enumeration of
\* some, all or none of the courses.
SourceOutcomes(courses) ==
    { [topFail |-> TRUE, fails |-> NoFails(courses)] }
        \cup { [topFail |-> FALSE, fails |-> f] : f \in FailChoices(courses) }

\* 1 when the data source fails somewhere in a fetch, else 0.
Faulty(topFail, fails) ==
    IF topFail \/ \E i \in DOMAIN fails : fails[i] # NoFail THEN 1 ELSE 0

(* ----------------------------- configuration -------------------------- *)
\* The four required settings, in the order the module tests them.
RequiredKeys ==
    << "DISCORD_TOKEN", "DISCORD_CHANNEL_ID", "CANVAS_BASE_URL", "CANVAS_API_TOKEN" >>

\* What os.getenv can give for a key: None, the empty string, or a value.
EnvValues == {"None", "", "value"}

\* The environments the process can be started in.
Environments == [{RequiredKeys[i] : i \in 1 .. Len(RequiredKeys)} -> EnvValues]

\* The environment with all four settings present.
Configured == [k \in {RequiredKeys[i] : i \in 1 .. Len(RequiredKeys)} |-> "value"]

\* `not X' on a value of os.getenv: true for None and for the empty string.
NotSet(v) == v = "None" \/ v = ""

\* The list `missing' after the four tests.
Missing(e) ==
    LET Absent(k) == NotSet(e[k]) IN SelectSeq(RequiredKeys, Absent)

(* -------------------------------- state -------------------------------- *)
VARIABLES
    clock,          \* the current instant, in UTC ticks
    upstream,       \* what Canvas holds: the sequence of active courses
    channelOK,      \* bot.get_channel(DISCORD_CHANNEL_ID) resolves
    booted,         \* hasattr(bot, 'booted')
    running,        \* scheduler.running
    jobs,           \* the scheduler's job store, a bag of [kind, run, args, reg]
    waiting,        \* on_ready handlers suspended in the announcement send
    sink,           \* bag of the messages this process handed to channel.send
    lastSend,       \* how the latest send_message / announcement ended
    lastFetch,      \* the latest call of get_upcoming_assignments
    boot,           \* number of restarts of the process so far
    readyEvents,    \* ready events this process handled before it was booted
    rescanTimes,    \* instants at which this process ran a rescan
    startedAt,      \* instant of scheduler.start() in this process
    elapsed,        \* ticks since the model's first state
    faults,         \* fetches so far in which the data source failed
    env,            \* os.getenv of the four required settings
    pc,             \* where the main thread is: import, validate, constructed,
                    \* up (in bot.run), lingering (ended, process alive), exited
    listener,       \* the keep-alive thread: none, alive or stopped
    diag,           \* the keys named by the SystemExit message, << >> if none
    replies         \* what the latest `next' command handed to ctx.send

\* The state of the process start and of the command replies; the scheduled
\* jobs and the ready handler leave it alone.
procVars == << env, pc, listener, diag, replies >>

vars == << clock, upstream, channelOK, booted, running, jobs, waiting, sink,
           lastSend, lastFetch, boot, readyEvents, rescanTimes, startedAt,
           elapsed, faults, env, pc, listener, diag, replies >>

NoFetch ==
    [by |-> "none", now |-> NoTime, days |-> 0, topFail |-> FALSE,
     fails |-> << >>, raised |-> FALSE, result |-> << >>]

\* The record of one call of get_upcoming_assignments.
FetchRecord(by, t, days, topFail, fails) ==
    CHOOSE f \in
        { [by |-> by, now |-> t, days |-> days, topFail |-> topFail, fails |-> fails,
           raised |-> r.raised, result |-> r.result] :
            r \in { GetUpcomingAssignments(t, days, upstream, topFail, fails) } } : TRUE

\* A message handed to channel.send: its kind, the assignments it renders,
\* the instant of the call and, for a warning, the instant its job was
\* registered.
Message(kind, items, reg) ==
    [kind |-> kind, items |-> items, at |-> clock, reg |-> reg]

\* A job of the scheduler: args are the assignments bound to its callable.
Job(kind, run, args, reg) == [kind |-> kind, run |-> run, args |-> args, reg |-> reg]

(* --------------------------- trigger arithmetic ------------------------ *)
\* The wall-clock reading of instant t in the scheduler's timezone.
Wall(t) == t + TzOffset

\* CronTrigger(hour=h, minute=m): the first instant after t whose wall
\* reading is tick `at' of the day.
NextDaily(at, t) ==
    CHOOSE n \in (t + 1) .. (t + TicksPerDay) : Wall(n) % TicksPerDay = at

\* NextRescan with a trigger that fires every six hours.
NextRescanSixHourly(t) ==
    CHOOSE n \in (t + 1) .. (t + 12) : Wall(n) % 12 = 0

\* CronTrigger(minute="*/30"): the first instant after t on the cadence.
NextRescan(t) ==
    CHOOSE n \in (t + 1) .. (t + RescanCadence) : Wall(n) % RescanCadence = 0

\* The next run time of a recurring job of the given kind after instant t.
NextRun(kind, t) ==
    CASE kind = "MorningDigest" -> NextDaily(MorningTick, t)
      [] kind = "MiddayDigest" -> NextDaily(MiddayTick, t)
      [] kind = "Rescan" -> NextRescan(t)

CronKinds == {"MorningDigest", "MiddayDigest", "Rescan"}

\* Number of copies, in the bag B, of the elements that are in the set S.
CopiesOf(B, S) == BagCardinality([x \in S \cap BagToSet(B) |-> B[x]])

(* ------------------------------- send_message -------------------------- *)
\* SendMessage with a retry: a rejected send is handed to the channel again.
SendMessageRetry(msg) ==
    IF channelOK
    THEN \/ /\ sink' = sink (+) SetToBag({msg})
            /\ lastSend' = "ok"
         \/ /\ sink' = sink (+) SetToBag({msg}) (+) SetToBag({msg})
            /\ lastSend' = "rejected"
    ELSE /\ sink' = sink
         /\ lastSend' = "nochannel"

\* send_message(text): resolve the channel; send if it resolves (the send is
\* accepted or rejected by the platform), else print.
SendMessage(msg) ==
    IF channelOK
    THEN /\ sink' = sink (+) SetToBag({msg})
         /\ lastSend' \in {"ok", "rejected"}
    ELSE /\ sink' = sink
         /\ lastSend' = "nochannel"

(* ------------------------- schedule_two_hour_warnings ------------------ *)
\* WarnInFuture with the comparison made non-strict: warn_time >= now.
WarnInFutureOrNow(a, t) == ~DtGt(NowTz(t), PlusDelta(a.due, 0 - TwoHours))

\* The test of the loop body: warn_time > now.
WarnInFuture(a, t) == DtGt(PlusDelta(a.due, 0 - TwoHours), NowTz(t))

\* WarningJobs with closures that bind late: every job's callable sees the
\* assignment the loop processed last.
WarningJobsLateBound(assignments, t) ==
    [j \in { Job("DueWarning", Instant(PlusDelta(assignments[i].due, 0 - TwoHours)),
                 << assignments[Len(assignments)] >>, t) :
               i \in {k \in 1 .. Len(assignments) : WarnInFuture(assignments[k], t)} }
       |-> Cardinality({i \in 1 .. Len(assignments) :
                          /\ WarnInFuture(assignments[i], t)
                          /\ Instant(PlusDelta(assignments[i].due, 0 - TwoHours)) = j.run})]

\* The loop over the fetched assignments: one add_job per assignment whose
\* warn_time is in the future, run_date = warn_time, the assignment bound to
\* the callable by default arguments.  Nothing consults the job store.
WarningJobs(assignments, t) ==
    [j \in { Job("DueWarning", Instant(PlusDelta(assignments[i].due, 0 - TwoHours)),
                 << assignments[i] >>, t) :
               i \in {k \in 1 .. Len(assignments) : WarnInFuture(assignments[k], t)} }
       |-> Cardinality({i \in 1 .. Len(assignments) : assignments[i] = j.args[1]})]

\* The job store after a recurring job j has run at instant t.
Rescheduled(j, t) ==
    (jobs (-) SetToBag({j})) (+) SetToBag({Job(j.kind, NextRun(j.kind, t), << >>, NoTime)})

\* A job is due: the scheduler runs, the job is in the store and its run
\* time has come.
Due(j) == running /\ j \in BagToSet(jobs) /\ j.run <= clock

\* The jobs of the given kinds that are due.
DueJobs(kinds) == {j \in BagToSet(jobs) : Due(j) /\ j.kind \in kinds}

\* The rescan trigger fires: schedule_two_hour_warnings().
Rescan(j, topFail, fails) ==
    /\ UNCHANGED procVars
    /\ Due(j) /\ j.kind = "Rescan"
    /\ rescanTimes' = rescanTimes \cup {clock}
    /\ faults' = faults + Faulty(topFail, fails)
    /\ UNCHANGED << clock, upstream, channelOK, booted, running, waiting, sink,
                    lastSend, boot, readyEvents, startedAt, elapsed >>
    /\ \E f \in {FetchRecord("Rescan", clock, DaysAheadDefault, topFail, fails)} :
           /\ lastFetch' = f
           /\ jobs' = Rescheduled(j, clock) (+) WarningJobs(f.result, clock)

(* ---------------------- morning_digest / midday_digest ----------------- *)
\* DigestSend without the emptiness test: the header goes out on its own.
DigestSendAlways(kind, f) ==
    IF ~f.raised
    THEN SendMessage(Message(kind, f.result, NoTime))
    ELSE UNCHANGED << sink, lastSend >>

\* The body of a digest after the fetch: send one message when the list is
\* not empty.  A fetch that raised ends the task before this point.
DigestSend(kind, f) ==
    IF ~f.raised /\ f.result # << >>
    THEN SendMessage(Message(kind, f.result, NoTime))
    ELSE UNCHANGED << sink, lastSend >>

\* A digest trigger fires: morning_digest() or midday_digest().
Digest(j, topFail, fails) ==
    /\ UNCHANGED procVars
    /\ Due(j) /\ j.kind \in {"MorningDigest", "MiddayDigest"}
    /\ jobs' = Rescheduled(j, clock)
    /\ faults' = faults + Faulty(topFail, fails)
    /\ UNCHANGED << clock, upstream, channelOK, booted, running, waiting, boot,
                    readyEvents, rescanTimes, startedAt, elapsed >>
    /\ \E f \in {FetchRecord(j.kind, clock, DaysAheadDefault, topFail, fails)} :
           /\ lastFetch' = f
           /\ DigestSend(j.kind, f)

(* ------------------------------ send_warning --------------------------- *)
\* FireWarning whose callable never runs send_warning: the job leaves the
\* store and nothing is sent.
FireWarningNoSend(j) ==
    /\ UNCHANGED procVars
    /\ Due(j) /\ j.kind = "DueWarning"
    /\ jobs' = jobs (-) SetToBag({j})
    /\ UNCHANGED << clock, upstream, channelOK, booted, running, waiting, sink, lastSend,
                    lastFetch, boot, readyEvents, rescanTimes, startedAt,
                    elapsed, faults >>

\* FireWarning with a trigger that is not one-shot: the job stays in the
\* store after it has run.
FireWarningStays(j) ==
    /\ UNCHANGED procVars
    /\ Due(j) /\ j.kind = "DueWarning"
    /\ jobs' = jobs
    /\ SendMessage(Message("DueWarning", j.args, j.reg))
    /\ UNCHANGED << clock, upstream, channelOK, booted, running, waiting,
                    lastFetch, boot, readyEvents, rescanTimes, startedAt,
                    elapsed, faults >>

\* A one-shot warning job fires: the DateTrigger job leaves the store and
\* send_warning() sends the reminder for the assignment bound to it.
FireWarning(j) ==
    /\ UNCHANGED procVars
    /\ Due(j) /\ j.kind = "DueWarning"
    /\ jobs' = jobs (-) SetToBag({j})
    /\ SendMessage(Message("DueWarning", j.args, j.reg))
    /\ UNCHANGED << clock, upstream, channelOK, booted, running, waiting,
                    lastFetch, boot, readyEvents, rescanTimes, startedAt,
                    elapsed, faults >>

(* --------------------------------- on_ready ---------------------------- *)
\* StartScheduler without the test of scheduler.running: every ready event
\* registers the three triggers again.
StartSchedulerUnguarded ==
    /\ jobs' = jobs (+) SetToBag({Job(k, NextRun(k, clock), << >>, NoTime) : k \in CronKinds})
    /\ running' = TRUE
    /\ startedAt' = IF running THEN startedAt ELSE clock

\* The second half of on_ready: register the three recurring triggers and
\* start the scheduler, unless it is running already.
StartScheduler ==
    IF ~running
    THEN /\ jobs' = jobs (+) SetToBag({Job(k, NextRun(k, clock), << >>, NoTime) : k \in CronKinds})
         /\ running' = TRUE
         /\ startedAt' = clock
    ELSE UNCHANGED << jobs, running, startedAt >>

\* A ready event arrives and on_ready runs up to its first suspension: with
\* no `booted' attribute and a resolvable channel it hands the announcement
\* to channel.send and waits there; otherwise it runs to its end.  Once the
\* process is booted a ready event changes nothing, and any number of them
\* may come.
OnReady ==
    /\ UNCHANGED procVars
    /\ booted \/ readyEvents < MaxReady
    /\ readyEvents' = IF booted THEN readyEvents ELSE readyEvents + 1
    /\ IF ~booted /\ channelOK
       THEN /\ sink' = sink (+) SetToBag({Message("Online", << >>, NoTime)})
            /\ waiting' = waiting + 1
            /\ UNCHANGED << booted, running, jobs, startedAt >>
       ELSE /\ booted' = TRUE
            /\ StartScheduler
            /\ UNCHANGED << sink, waiting >>
    /\ UNCHANGED << clock, upstream, channelOK, lastSend, lastFetch, boot,
                    rescanTimes, elapsed, faults >>

\* The announcement send of a suspended on_ready ends.  Accepted: the handler
\* sets bot.booted and goes on to the scheduler.  Rejected: the exception
\* leaves on_ready, which does neither.
OnReadyResume(outcome) ==
    /\ UNCHANGED procVars
    /\ waiting > 0
    /\ waiting' = waiting - 1
    /\ lastSend' = outcome
    /\ IF outcome = "ok"
       THEN /\ booted' = TRUE
            /\ StartScheduler
       ELSE UNCHANGED << booted, running, jobs, startedAt >>
    /\ UNCHANGED << clock, upstream, channelOK, sink, lastFetch, boot, readyEvents,
                    rescanTimes, elapsed, faults >>

(* ------------------------------ environment ---------------------------- *)
\* Time passes.  A timer of the running scheduler fires at its run time, so
\* the clock does not pass a job that is due.
Tick ==
    /\ UNCHANGED procVars
    /\ elapsed < MaxTicks
    /\ DueJobs(CronKinds \cup {"DueWarning"}) = {}
    /\ clock' = clock + 1
    /\ elapsed' = elapsed + 1
    /\ UNCHANGED << upstream, channelOK, booted, running, jobs, waiting, sink,
                    lastSend, lastFetch, boot, readyEvents, rescanTimes, startedAt,
                    faults >>

\* The process is stopped and started again: module level runs anew, with a
\* fresh bot and a fresh, empty scheduler.
Restart ==
    /\ UNCHANGED procVars
    /\ boot < MaxRestarts
    /\ boot' = boot + 1
    /\ booted' = FALSE
    /\ running' = FALSE
    /\ jobs' = EmptyBag
    /\ waiting' = 0
    /\ readyEvents' = 0
    /\ rescanTimes' = {}
    /\ startedAt' = NoTime
    /\ lastSend' = "none"
    /\ lastFetch' = NoFetch
    /\ sink' = EmptyBag
    /\ UNCHANGED << clock, upstream, channelOK, elapsed, faults >>

(* ----------------------------- specification --------------------------- *)
Init ==
    /\ clock \in StartClocks
    /\ upstream \in MainUpstreams(clock)
    /\ channelOK \in BOOLEAN
    /\ booted = FALSE
    /\ running = FALSE
    /\ jobs = EmptyBag
    /\ waiting = 0
    /\ sink = EmptyBag
    /\ lastSend = "none"
    /\ lastFetch = NoFetch
    /\ boot = 0
    /\ readyEvents = 0
    /\ rescanTimes = {}
    /\ startedAt = NoTime
    /\ elapsed = 0
    /\ faults = 0
    /\ env = Configured
    /\ pc = "up"
    /\ listener = "alive"
    /\ diag = << >>
    /\ replies = << >>

FireRescan ==
    \E j \in DueJobs({"Rescan"}), src \in SourceOutcomes(upstream) :
        /\ faults + Faulty(src.topFail, src.fails) <= MaxFaults
        /\ Rescan(j, src.topFail, src.fails)

FireDigest ==
    \E j \in DueJobs({"MorningDigest", "MiddayDigest"}), src \in SourceOutcomes(upstream) :
        /\ faults + Faulty(src.topFail, src.fails) <= MaxFaults
        /\ Digest(j, src.topFail, src.fails)

FireWarnings == \E j \in DueJobs({"DueWarning"}) : FireWarning(j)

ResumeOnReady == \E outcome \in {"ok", "rejected"} : OnReadyResume(outcome)

Next ==
    \/ OnReady
    \/ ResumeOnReady
    \/ FireRescan
    \/ FireDigest
    \/ FireWarnings
    \/ Tick
    \/ Restart

Spec == Init /\ [][Next]_vars

(* ------------------ the fetch function on its own ---------------------- *)
\* One call of get_upcoming_assignments(days_ahead) against the upstream.
FetchCall ==
    \E days \in 1 .. MaxDays, src \in SourceOutcomes(upstream) :
        /\ lastFetch' = FetchRecord("call", clock, days, src.topFail, src.fails)
        /\ UNCHANGED procVars
        /\ UNCHANGED << clock, upstream, channelOK, booted, running, jobs, waiting,
                        sink, lastSend, boot, readyEvents, rescanTimes, startedAt,
                        elapsed, faults >>

InitFetch ==
    /\ clock = StartClock
    /\ upstream \in FetchUpstreams
    /\ channelOK = TRUE
    /\ booted = FALSE
    /\ running = FALSE
    /\ jobs = EmptyBag
    /\ waiting = 0
    /\ sink = EmptyBag
    /\ lastSend = "none"
    /\ lastFetch = NoFetch
    /\ boot = 0
    /\ readyEvents = 0
    /\ rescanTimes = {}
    /\ startedAt = NoTime
    /\ elapsed = 0
    /\ faults = 0
    /\ env = Configured
    /\ pc = "up"
    /\ listener = "alive"
    /\ diag = << >>
    /\ replies = << >>

NextFetch == FetchCall \/ Tick

FetchSpec == InitFetch /\ [][NextFetch]_vars

(* ------------------- the process while it stays up --------------------- *)
NextUp ==
    \/ OnReady
    \/ ResumeOnReady
    \/ FireRescan
    \/ FireDigest
    \/ FireWarnings
    \/ Tick

\* The process does not stop while something can happen: the event loop runs
\* every task that is ready, the scheduler fires every timer that is due, and
\* time goes on.
\* The process starts at StartClock and its channel resolves.
InitLive ==
    /\ Init
    /\ clock = StartClock
    /\ channelOK

LiveSpec ==
    /\ InitLive
    /\ [][NextUp]_vars
    /\ WF_vars(NextUp)

(* --------------------------- the `next' command ------------------------ *)
\* A message handed to ctx.send, with what the platform did with it.
Reply(kind, items, outcome) == [kind |-> kind, items |-> items, outcome |-> outcome]

\* FirstFive without the slice: the whole list.
FirstFiveUnsliced(s) == s

\* assignments[:5]
FirstFive(s) == SubSeq(s, 1, IF Len(s) < NextLimit THEN Len(s) ELSE NextLimit)

\* What the command hands to ctx.send after the fetch f: nothing when the
\* fetch raised (the exception leaves the command), the "none found" text
\* for an empty list, else the header with the first five entries.
RepliesAfter(f) ==
    IF f.raised THEN << >>
    ELSE IF f.result = << >> THEN << Reply("NoneFound", << >>, "ok") >>
    ELSE << Reply("Upcoming", FirstFive(f.result), "ok") >>

\* !next: the command sends "Checking Canvas ..." and, unless that send was
\* rejected, fetches with the default horizon and sends its answer.
NextCmd ==
    \E ack \in {"ok", "rejected"}, src \in SourceOutcomes(upstream) :
        /\ pc = "up"
        /\ IF ack = "rejected"
           THEN /\ replies' = << Reply("Checking", << >>, "rejected") >>
                /\ UNCHANGED << lastFetch, faults >>
           ELSE /\ faults + Faulty(src.topFail, src.fails) <= MaxFaults
                /\ faults' = faults + Faulty(src.topFail, src.fails)
                /\ \E f \in {FetchRecord("next", clock, DaysAheadDefault, src.topFail, src.fails)} :
                       /\ lastFetch' = f
                       /\ replies' = << Reply("Checking", << >>, "ok") >> \o RepliesAfter(f)
        /\ UNCHANGED << clock, upstream, channelOK, booted, running, jobs, waiting,
                        sink, lastSend, boot, readyEvents, rescanTimes, startedAt,
                        elapsed, env, pc, listener, diag >>

InitCommand ==
    /\ clock = StartClock
    /\ upstream \in CommandUpstreams
    /\ channelOK = TRUE
    /\ booted = FALSE
    /\ running = FALSE
    /\ jobs = EmptyBag
    /\ waiting = 0
    /\ sink = EmptyBag
    /\ lastSend = "none"
    /\ lastFetch = NoFetch
    /\ boot = 0
    /\ readyEvents = 0
    /\ rescanTimes = {}
    /\ startedAt = NoTime
    /\ elapsed = 0
    /\ faults = 0
    /\ env = Configured
    /\ pc = "up"
    /\ listener = "alive"
    /\ diag = << >>
    /\ replies = << >>

NextCommand == NextCmd

CommandSpec == InitCommand /\ [][NextCommand]_vars

(* --------------------------- the process start ------------------------- *)
\* keep_alive(): a Thread (not a daemon) is started on app.run, which serves
\* the liveness route until it fails or is shut down.
KeepAlive ==
    /\ pc = "import"
    /\ listener' = "alive"
    /\ pc' = "validate"
    /\ UNCHANGED << clock, upstream, channelOK, booted, running, jobs, waiting, sink,
                    lastSend, lastFetch, boot, readyEvents, rescanTimes, startedAt,
                    elapsed, faults, env, diag, replies >>

\* The environment is validated: with a key missing SystemExit is raised in
\* the main thread, which ends; the interpreter then waits for the threads
\* that are not daemons before the process ends.  With all keys present the
\* module goes on to build the bot and the scheduler.
ValidateEnv ==
    /\ pc = "validate"
    /\ IF Missing(env) # << >>
       THEN /\ diag' = Missing(env)
            /\ pc' = IF listener = "alive" THEN "lingering" ELSE "exited"
       ELSE /\ diag' = diag
            /\ pc' = "constructed"
    /\ UNCHANGED << clock, upstream, channelOK, booted, running, jobs, waiting, sink,
                    lastSend, lastFetch, boot, readyEvents, rescanTimes, startedAt,
                    elapsed, faults, env, listener, replies >>

\* app.run returns or raises (the port is taken, the server is shut down):
\* the keep-alive thread ends, and with it a process whose main thread has
\* ended already.
ListenerStops ==
    /\ listener = "alive"
    /\ listener' = "stopped"
    /\ pc' = IF pc = "lingering" THEN "exited" ELSE pc
    /\ UNCHANGED << clock, upstream, channelOK, booted, running, jobs, waiting, sink,
                    lastSend, lastFetch, boot, readyEvents, rescanTimes, startedAt,
                    elapsed, faults, env, diag, replies >>

\* bot.run(DISCORD_TOKEN): the bot connects; from here ready events arrive.
BotRun ==
    /\ pc = "constructed"
    /\ pc' = "up"
    /\ UNCHANGED << clock, upstream, channelOK, booted, running, jobs, waiting, sink,
                    lastSend, lastFetch, boot, readyEvents, rescanTimes, startedAt,
                    elapsed, faults, env, listener, diag, replies >>

\* The connected bot handles its events and timers.
UpStep == pc = "up" /\ NextUp

InitStartup ==
    /\ clock = StartClock
    /\ upstream \in MainUpstreams(clock)
    /\ channelOK \in BOOLEAN
    /\ booted = FALSE
    /\ running = FALSE
    /\ jobs = EmptyBag
    /\ waiting = 0
    /\ sink = EmptyBag
    /\ lastSend = "none"
    /\ lastFetch = NoFetch
    /\ boot = 0
    /\ readyEvents = 0
    /\ rescanTimes = {}
    /\ startedAt = NoTime
    /\ elapsed = 0
    /\ faults = 0
    /\ env \in Environments
    /\ pc = "import"
    /\ listener = "none"
    /\ diag = << >>
    /\ replies = << >>

NextStartup ==
    \/ KeepAlive
    \/ ValidateEnv
    \/ ListenerStops
    \/ BotRun
    \/ UpStep

StartupSpec == InitStartup /\ [][NextStartup]_vars

(* -------------------------------- claims ------------------------------- *)
\* The identity of a fetched assignment: (course, title, due_at).
SameIdentity(a, b) ==
    a.course = b.course /\ a.name = b.name /\ Instant(a.due) = Instant(b.due)

\* The instant of the two-hour warning of a fetched assignment.
WarnAt(a) == Instant(a.due) - TwoHours

\* Pending DueWarning jobs for the identity of a.
PendingFor(a) ==
    CopiesOf(jobs, {j \in BagToSet(jobs) :
                      j.kind = "DueWarning" /\ SameIdentity(j.args[1], a)})

\* Warnings this process has sent for the identity of a.
WarningsSentFor(a) ==
    CopiesOf(sink, {m \in BagToSet(sink) :
                      m.kind = "DueWarning" /\ SameIdentity(m.items[1], a)})

\* C1: after rescans against an unchanged upstream set, the pending DueWarning
\* jobs hold exactly one job per (course, title, due_at) identity, not two.
IdempotentRescan ==
    \A j \in BagToSet(jobs) : j.kind = "DueWarning" => PendingFor(j.args[1]) = 1

\* C2: at most one two-hour warning is sent per (course, title, due_at)
\* identity, however many rescans re-fetch the assignment.
NoDuplicateReminders ==
    \A m \in BagToSet(sink) :
        m.kind = "DueWarning" => WarningsSentFor(m.items[1]) <= 1

\* C3: a rescan registers no warning job for an assignment whose warn_at is
\* not strictly after the rescan's time, so every pending job and every
\* warning sent was registered strictly before its warn_at.
LateWindowPolicy ==
    /\ \A j \in BagToSet(jobs) :
          j.kind = "DueWarning" => (j.run = WarnAt(j.args[1]) /\ j.reg < j.run)
    /\ \A m \in BagToSet(sink) :
          m.kind = "DueWarning" => m.reg < WarnAt(m.items[1])
    /\ lastFetch.by = "Rescan" =>
          \A i \in 1 .. Len(lastFetch.result) :
              WarnAt(lastFetch.result[i]) <= lastFetch.now =>
                  ~ \E j \in BagToSet(jobs) :
                       /\ j.kind = "DueWarning"
                       /\ SameIdentity(j.args[1], lastFetch.result[i])
                       /\ j.reg = lastFetch.now

\* A restarted process has rescanned exactly at the warn_at of a fetched
\* assignment: nothing is pending for it and it has sent nothing for it.
LateWindowWitness ==
    /\ boot >= 1
    /\ lastFetch.by = "Rescan"
    /\ \E i \in 1 .. Len(lastFetch.result) :
          /\ WarnAt(lastFetch.result[i]) = lastFetch.now
          /\ PendingFor(lastFetch.result[i]) = 0
          /\ ~ \E m \in BagToSet(sink) :
                 m.kind = "DueWarning" /\ SameIdentity(m.items[1], lastFetch.result[i])

\* Every assignment a fetch can return from the upstream sets of a process
\* started at StartClock.
AllTuples ==
    { Tuple(u[i], u[i].assignments[k], AsTimezone(FromIsoFormat(u[i].assignments[k].due_at))) :
        <<u, i, k>> \in { x \in MainUpstreams(StartClock) \X (1 .. 2) \X (1 .. 2) :
                            /\ x[2] <= Len(x[1])
                            /\ x[3] <= Len(x[1][x[2]].assignments)
                            /\ x[1][x[2]].assignments[x[3]].due_at # NoDue } }

\* A warning job for a is pending.
Scheduled(a) ==
    \E j \in BagToSet(jobs) : j.kind = "DueWarning" /\ j.args = << a >>

\* A warning for a was handed to the channel at its warn_at.
SentAtWarnAt(a) ==
    \E m \in BagToSet(sink) :
        m.kind = "DueWarning" /\ m.items = << a >> /\ m.at = WarnAt(a)

CadenceBound ==
    running =>
        \A w \in startedAt .. clock :
            w + TwoHours < clock =>
                \E t \in rescanTimes : w <= t /\ t <= w + TwoHours

\* A whole two-hour window has gone by since the scheduler started, and
\* rescans ran in it.
CadenceWitness ==
    /\ running
    /\ startedAt + TwoHours < clock
    /\ \E t \in rescanTimes : startedAt <= t /\ t <= startedAt + TwoHours

\* Announcements handed to the channel by this process.
Announcements ==
    CopiesOf(sink, {m \in BagToSet(sink) : m.kind = "Online"})

\* C6: once the ready events of a process lifetime have been handled (the
\* channel resolving), the "bot online" announcement was sent exactly once.
AnnouncedExactlyOnce ==
    (channelOK /\ readyEvents >= 1 /\ waiting = 0) => Announcements = 1

\* C7: a digest cycle whose fetch returns an empty sequence sends nothing.
DigestSuppression ==
    [][(FireDigest /\ ~lastFetch'.raised /\ lastFetch'.result = << >>) => sink' = sink]_vars

\* A digest has run on an empty fetch with a resolvable channel, and the
\* channel holds no digest of that instant.
DigestSuppressionWitness ==
    /\ lastFetch.by \in {"MorningDigest", "MiddayDigest"}
    /\ ~lastFetch.raised
    /\ lastFetch.result = << >>
    /\ channelOK
    /\ ~ \E m \in BagToSet(sink) : m.kind = lastFetch.by /\ m.at = lastFetch.now

\* The upstream without the assignments of the courses whose enumeration
\* failed in the latest fetch.
OtherCourses ==
    [i \in DOMAIN upstream |->
        IF lastFetch.fails[i] = NoFail THEN upstream[i]
        ELSE Course(upstream[i].name, << >>)]

\* C8: when the enumeration of a course fails, the fetch returns normally
\* and its result is exactly the sorted qualifying assignments of the other
\* courses.
PerCourseIsolation ==
    (lastFetch.by # "none" /\ ~lastFetch.topFail) =>
        /\ ~lastFetch.raised
        /\ lastFetch.result =
              GetUpcomingAssignments(lastFetch.now, lastFetch.days, OtherCourses, FALSE,
                                     [i \in DOMAIN upstream |-> NoFail]).result

\* C9: when the enumeration of the courses fails, the fetch yields an empty
\* sequence instead of an error.
TopLevelFailureYieldsEmpty ==
    lastFetch.topFail => (~lastFetch.raised /\ lastFetch.result = << >>)

\* The upstream assignments, as (course index, assignment index) pairs, with a
\* due date inside [now, now + days_ahead] of the latest fetch, in instants.
InHorizon ==
    { p \in (DOMAIN upstream) \X (1 .. 2) :
        /\ p[2] <= Len(upstream[p[1]].assignments)
        /\ upstream[p[1]].assignments[p[2]].due_at # NoDue
        /\ lastFetch.now <= upstream[p[1]].assignments[p[2]].due_at
        /\ upstream[p[1]].assignments[p[2]].due_at
              <= lastFetch.now + lastFetch.days * TicksPerDay }

\* C10: a fetch in which nothing fails returns exactly the assignments that
\* have a due date with now <= due_at <= now + days_ahead, bounds included;
\* every fetch returns only such assignments.
HorizonFilter ==
    (lastFetch.by # "none" /\ ~lastFetch.raised) =>
        /\ \A i \in 1 .. Len(lastFetch.result) :
              /\ lastFetch.now <= Instant(lastFetch.result[i].due)
              /\ Instant(lastFetch.result[i].due)
                    <= lastFetch.now + lastFetch.days * TicksPerDay
        /\ (\A i \in DOMAIN upstream : lastFetch.fails[i] = NoFail) =>
              /\ Len(lastFetch.result) = Cardinality(InHorizon)
              /\ { << r.course, r.name, Instant(r.due) >> :
                      r \in {lastFetch.result[i] : i \in 1 .. Len(lastFetch.result)} }
                   = { << upstream[p[1]].name, upstream[p[1]].assignments[p[2]].name,
                          upstream[p[1]].assignments[p[2]].due_at >> : p \in InHorizon }

\* A fetch without failures kept an assignment due exactly at now and one due
\* exactly at now + days_ahead, and left another assignment out.
HorizonWitness ==
    /\ lastFetch.by = "call"
    /\ ~lastFetch.raised
    /\ \A i \in DOMAIN upstream : lastFetch.fails[i] = NoFail
    /\ \E i \in 1 .. Len(lastFetch.result) :
          Instant(lastFetch.result[i].due) = lastFetch.now
    /\ \E i \in 1 .. Len(lastFetch.result) :
          Instant(lastFetch.result[i].due) = lastFetch.now + lastFetch.days * TicksPerDay
    /\ \E i \in DOMAIN upstream : \E k \in 1 .. Len(upstream[i].assignments) :
          << i, k >> \notin InHorizon

\* C11: whatever the order of the courses and of the assignments within a
\* course, the sequence a fetch returns is ascending by due_at.
FetchOrdering ==
    (lastFetch.by # "none" /\ ~lastFetch.raised) =>
        \A i \in 1 .. Len(lastFetch.result) : \A k \in i .. Len(lastFetch.result) :
            DtLeq(lastFetch.result[i].due, lastFetch.result[k].due)

\* A fetch returned two assignments of one course in the opposite order of
\* the upstream listing: the later listed one is due earlier and comes first.
FetchOrderingWitness ==
    /\ lastFetch.by = "call"
    /\ ~lastFetch.raised
    /\ Len(lastFetch.result) >= 2
    /\ \E c \in DOMAIN upstream :
          /\ Len(upstream[c].assignments) = 2
          /\ lastFetch.result[1].course = upstream[c].name
          /\ lastFetch.result[1].name = upstream[c].assignments[2].name
          /\ \E k \in 2 .. Len(lastFetch.result) :
                /\ lastFetch.result[k].course = upstream[c].name
                /\ lastFetch.result[k].name = upstream[c].assignments[1].name
                /\ DtGt(lastFetch.result[k].due, lastFetch.result[1].due)

\* C12: once validation has found a required setting absent, the process has
\* exited: the diagnostic names exactly the missing keys, the bot never
\* connected, no trigger is registered, and nothing keeps the process alive.
ConfigErrorExits ==
    (pc \notin {"import", "validate"} /\ Missing(env) # << >>) =>
        /\ diag = Missing(env)
        /\ ~booted /\ ~running /\ readyEvents = 0 /\ jobs = EmptyBag
        /\ pc = "exited"

\* The recurring trigger of kind k is in the store once, set to its next
\* time: the coming cadence point, or the one after it when the cycle of
\* this instant has run already.
TriggerStands(k) ==
    CopiesOf(jobs, {j \in BagToSet(jobs) :
                      j.kind = k /\ clock <= j.run /\ j.run <= NextRun(k, clock)}) = 1

\* C13: a send that fails (channel not resolved, or send rejected) is handed
\* to the channel at most once, leaves the scheduler running and leaves each
\* recurring trigger in the store at its next time, so the next cycle runs.
DeliveryErrorRecovers ==
    [][(running /\ lastSend' \in {"rejected", "nochannel"}) =>
          /\ running'
          /\ BagCardinality(sink') <= BagCardinality(sink) + 1
          /\ \A k \in CronKinds : TriggerStands(k)']_vars

\* The only ready handler of the process has finished, a send_message was
\* rejected after that, a rescan cycle has run at a later instant, and the
\* three triggers stand.
DeliveryErrorWitness ==
    /\ running /\ readyEvents = 1 /\ waiting = 0
    /\ lastSend = "rejected"
    /\ \E m \in BagToSet(sink) : m.kind # "Online"
    /\ \E t \in rescanTimes :
          \A m \in BagToSet(sink) : m.kind # "Online" => m.at < t
    /\ \A k \in CronKinds : TriggerStands(k)

\* The latest `next' command got its first message through and fetched.
CommandFetched ==
    /\ Len(replies) >= 1
    /\ replies[1].outcome = "ok"
    /\ lastFetch.by = "next"

\* C14: after a fetch of n entries the `next' command replies with the first
\* min(5, n) entries of the ascending result, the soonest-due ones in order,
\* when n > 0, and with the "none found" message and no entries when n = 0.
NextReplies ==
    (CommandFetched /\ ~lastFetch.raised) =>
        /\ Len(replies) = 2
        /\ IF Len(lastFetch.result) > 0
           THEN /\ replies[2].kind = "Upcoming"
                /\ Len(replies[2].items) =
                      (IF Len(lastFetch.result) < 5 THEN Len(lastFetch.result) ELSE 5)
                /\ \A i \in 1 .. Len(replies[2].items) :
                      /\ replies[2].items[i] = lastFetch.result[i]
                      /\ \A k \in i .. Len(lastFetch.result) :
                            DtLeq(replies[2].items[i].due, lastFetch.result[k].due)
           ELSE /\ replies[2].kind = "NoneFound"
                /\ replies[2].items = << >>

\* The command fetched six entries and replied with five of them.
NextRepliesWitness ==
    /\ CommandFetched
    /\ ~lastFetch.raised
    /\ Len(lastFetch.result) = 6
    /\ Len(replies) = 2
    /\ Len(replies[2].items) = 5

\* C15: when the fetch of the `next' command fails, the command replies with
\* a failure notice.
NextFailureNotice ==
    (CommandFetched /\ lastFetch.raised) =>
        \E i \in 1 .. Len(replies) : replies[i].kind = "Failure"

\* C16: invocations of schedule_two_hour_warnings do not interleave, so no
\* rescan leaves a warning of an assignment it fetched registered twice.
NoDoubleRegistration ==
    [][FireRescan =>
          \A i \in 1 .. Len(lastFetch'.result) :
              CopiesOf(jobs', {j \in BagToSet(jobs') :
                                 /\ j.kind = "DueWarning"
                                 /\ SameIdentity(j.args[1], lastFetch'.result[i])}) <= 1]_vars

\* C17: a DueWarning job fires at its fire_at, the firing hands one warning
\* to the message sink and takes that job out of the store; a job that has
\* fired is not pending again and its warning is not sent a second time;
\* and while the process stays up every pending job does get fired.
OneShotFiring ==
    /\ [][FireWarnings =>
             \E j \in BagToSet(jobs) :
                 /\ j.kind = "DueWarning"
                 /\ j.run = clock
                 /\ jobs' = jobs (-) SetToBag({j})
                 /\ sink' = (IF channelOK
                             THEN sink (+) SetToBag({Message("DueWarning", j.args, j.reg)})
                             ELSE sink)]_vars
    /\ [][\A m \in BagToSet(sink') :
             m.kind = "DueWarning" =>
                 /\ sink'[m] = 1
                 /\ m.at = WarnAt(m.items[1])
                 /\ ~ \E j \in BagToSet(jobs') :
                        j.kind = "DueWarning" /\ j.args = m.items /\ j.reg = m.reg]_vars
    /\ [](\A a \in AllTuples : Scheduled(a) => <>(~Scheduled(a)))

\* A warning job has fired, time has gone on, and its warning is in the sink
\* once while the job is not in the store.
OneShotWitness ==
    \E m \in BagToSet(sink) :
        /\ m.kind = "DueWarning"
        /\ sink[m] = 1
        /\ m.at < clock
        /\ ~ \E j \in BagToSet(jobs) :
               j.kind = "DueWarning" /\ j.args = m.items /\ j.reg = m.reg

\* a is the tuple of an assignment the upstream holds: its course name, its
\* title, its due date and its url.
IsUpstreamTuple(a) ==
    \E c \in DOMAIN upstream : \E k \in 1 .. Len(upstream[c].assignments) :
        /\ upstream[c].assignments[k].due_at # NoDue
        /\ a = TupleAt(upstream, << c, k >>)

TriggerCount(k) == CopiesOf(jobs, {j \in BagToSet(jobs) : j.kind = k})

\* C19: after any number of ready events the scheduler holds at most one
\* morning-digest, one midday-digest and one rescan trigger.
TriggersRegisteredOnce ==
    \A k \in CronKinds : TriggerCount(k) <= 1

\* Two ready events were handled before the process was booted, both
\* handlers have finished, a further ready event can come, and the scheduler
\* runs with one trigger of each kind.
TriggersOnceWitness ==
    /\ readyEvents >= 2 /\ waiting = 0 /\ booted /\ running
    /\ \A k \in CronKinds : TriggerCount(k) = 1

\* C20: once the first ready event has been handled, the scheduler runs with
\* the three recurring triggers, whatever became of the announcement.
TriggersAfterFirstReady ==
    (readyEvents >= 1 /\ waiting = 0) =>
        /\ running
        /\ \A k \in CronKinds : TriggerCount(k) >= 1

====
